---- MODULE Spec2Model ----
(***************************************************************************)
(* Model of the nomad command line front-end (src/nomad/cli/main.py):      *)
(* argument parsing, dispatch to the verb handlers, the destroy handler    *)
(* with its confirmation gate, and the except clause that turns handler    *)
(* errors into a log line and an exit status.  The project object          *)
(* (project.py), the containers' `exists` property and yesno are           *)
(* collaborators: they are modelled by their effect on the hypervisor      *)
(* state `live` and by the calls recorded in `trace`.                      *)
(***************************************************************************)
EXTENDS Integers, Sequences, FiniteSets, TLC

\* ---------------------------------------------------------------- bounds
MaxArgs == 2        \* longest list of positional words on the command line
MaxDeclared == 2    \* most containers declared by the project
MaxEnvSteps == 1    \* most create/remove steps taken by other processes

\* ------------------------------------------------------------ vocabulary
Tokens == {"web", "db", "up"}
Usernames == {"<None>", "root"}
NoAction == "<None>"
NoMsg == "<None>"

PerContainerParsers == {"destroy", "halt", "provision", "status", "up"}
Actions == {"config", "destroy", "halt", "help", "provision", "shell", "status", "up"}
ParserKeys == Actions \cup {"main"}

Range(s) == {s[k] : k \in DOMAIN s}
SeqsUpTo(S, n) == UNION {[1..k -> S] : k \in 0..n}
DistinctSeqsUpTo(S, n) == {s \in SeqsUpTo(S, n) : \A a, b \in DOMAIN s : a # b => s[a] # s[b]}

\* Python values of an argparse positional: None, a string, or a list.
NoneVal == [kind |-> "None", val |-> <<>>]
StrVal(s) == [kind |-> "str", val |-> <<s>>]
ListVal(l) == [kind |-> "list", val |-> l]

CmdLines ==
    [action : Actions \cup {NoAction},
     positionals : SeqsUpTo(Tokens, MaxArgs),
     force : BOOLEAN,
     containers : BOOLEAN,
     username : Usernames]

\* ------------------------------------------------------------ exceptions
NoExc == [type |-> "none", msg |-> NoMsg]
Caught == {"CLIError", "ConfigError", "NomadException"}
ProjectOutcomes == {NoExc} \cup [type : {"ConfigError", "NomadException"}, msg : {NoMsg, "message"}]
LoadOutcomes == {NoExc} \cup [type : {"ConfigError"}, msg : {NoMsg, "message"}]

\* ---------------------------------------------------------------- events
Event(op, name, ans) == [op |-> op, name |-> name, ans |-> ans]
Call(op, name) == Event(op, name, FALSE)

VARIABLES
    pc,                  \* position of the process
    declared,            \* names of project.containers, in declaration order
    live,                \* containers that exist in the hypervisor
    args,                \* the parsed argparse namespace
    container_names,     \* destroy: local of line 128
    idx,                 \* destroy: position of the comprehension of line 133
    existing_containers, \* destroy: local of line 133
    should_destroy,      \* destroy: local of lines 135..145
    exc,                 \* exception raised by the dispatched handler
    exitStatus,          \* exit status of the process
    trace,               \* calls made to the collaborators, in order
    destroyed,           \* containers removed by project.destroy
    envSteps             \* steps taken so far by other processes

vars == <<pc, declared, live, args, container_names, idx, existing_containers,
          should_destroy, exc, exitStatus, trace, destroyed, envSteps>>

\* ---------------------------------------------------------------- parser
\* Mutant: the shell parser takes its name like the per-container parsers.
ArityShellStar(action) ==
    IF action \in PerContainerParsers \cup {"shell"} THEN "*"
    ELSE IF action = "help" THEN "?"
    ELSE "0"

\* nargs of the positional of each subparser: '?' for help (subcommand) and
\* shell (name), '*' for the per-container parsers, no positional for config.
Arity(action) ==
    IF action \in PerContainerParsers THEN "*"
    ELSE IF action \in {"shell", "help"} THEN "?"
    ELSE "0"

\* Value argparse stores for a positional of the given nargs.
Positional(nargs, words) ==
    IF nargs = "*" THEN ListVal(words)
    ELSE IF nargs = "?" /\ words # <<>> THEN StrVal(words[1])
    ELSE NoneVal

\* parse_args() returns (instead of exiting with status 2).
Accepts(cmd) ==
    /\ cmd.force => cmd.action = "destroy"
    /\ cmd.containers => cmd.action = "config"
    /\ cmd.username # "<None>" => cmd.action = "shell"
    /\ cmd.action = NoAction => cmd.positionals = <<>>
    /\ cmd.action # NoAction /\ Arity(cmd.action) = "0" => cmd.positionals = <<>>
    /\ cmd.action # NoAction /\ Arity(cmd.action) = "?" => Len(cmd.positionals) <= 1

Namespace(cmd) ==
    [action |-> cmd.action,
     name |-> IF cmd.action = "help" THEN NoneVal
              ELSE Positional(Arity(cmd.action), cmd.positionals),
     subcommand |-> IF cmd.action = "help"
                    THEN Positional(Arity(cmd.action), cmd.positionals)
                    ELSE NoneVal,
     force |-> cmd.force,
     containers |-> cmd.containers,
     username |-> cmd.username]

NoArgs == [action |-> NoAction, name |-> NoneVal, subcommand |-> NoneVal,
           force |-> FALSE, containers |-> FALSE, username |-> "<None>"]

Init ==
    /\ pc = "start"
    /\ declared \in DistinctSeqsUpTo(Tokens, MaxDeclared)
    /\ live \in SUBSET Range(declared)
    /\ args = NoArgs
    /\ container_names = <<>>
    /\ idx = 1
    /\ existing_containers = <<>>
    /\ should_destroy = FALSE
    /\ exc = NoExc
    /\ exitStatus = 0
    /\ trace = <<>>
    /\ destroyed = {}
    /\ envSteps = 0

\* ---------------------------------------------------------- except clause
\* Lines 109..112: the error is logged and the process exits with status 1
\* only when the exception carries a message.
Surfaced(e) == e.type \in Caught /\ e.msg # NoMsg
ExitStatus(e) == IF Surfaced(e) THEN 1 ELSE 0
ErrorLog(e) == IF Surfaced(e) THEN <<Call("logger.error", NoneVal)>> ELSE <<>>

\* The handler returned or raised e after making the calls of tr.
Finish(e, tr) ==
    /\ exc' = e
    /\ trace' = tr \o ErrorLog(e)
    /\ exitStatus' = ExitStatus(e)
    /\ pc' = "exit"

\* ------------------------------------------------------------- __init__
ParseArgs ==
    /\ pc = "start"
    /\ \E cmd \in CmdLines :
        IF ~Accepts(cmd)
        THEN /\ pc' = "exit"
             /\ exitStatus' = 2
             /\ args' = args
        ELSE IF cmd.action = NoAction
        THEN /\ pc' = "exit"
             /\ exitStatus' = 1
             /\ args' = args
        ELSE /\ pc' = "dispatch"
             /\ exitStatus' = exitStatus
             /\ args' = Namespace(cmd)
    /\ UNCHANGED <<declared, live, container_names, idx, existing_containers,
                   should_destroy, exc, trace, destroyed, envSteps>>

\* ------------------------------------------------- one-call verb handlers
handlerFrame == <<declared, live, args, container_names, idx, existing_containers,
                  should_destroy, destroyed, envSteps>>

config ==
    /\ pc = "dispatch" /\ args.action = "config"
    /\ \E e \in LoadOutcomes :
        Finish(e, IF e = NoExc THEN trace \o <<Call("logger.info", NoneVal)>> ELSE trace)
    /\ UNCHANGED handlerFrame

halt ==
    /\ pc = "dispatch" /\ args.action = "halt"
    /\ \E e \in ProjectOutcomes : Finish(e, trace \o <<Call("project.halt", args.name)>>)
    /\ UNCHANGED handlerFrame

help ==
    /\ pc = "dispatch" /\ args.action = "help"
    /\ IF args.subcommand = NoneVal
       THEN Finish(NoExc, trace \o <<Call("print_help", StrVal("main"))>>)
       ELSE IF args.subcommand.val[1] \in ParserKeys
       THEN Finish(NoExc, trace \o <<Call("print_help", args.subcommand)>>)
       ELSE Finish([type |-> "CLIError", msg |-> "message"], trace)
    /\ UNCHANGED handlerFrame

provision ==
    /\ pc = "dispatch" /\ args.action = "provision"
    /\ \E e \in ProjectOutcomes : Finish(e, trace \o <<Call("project.provision", args.name)>>)
    /\ UNCHANGED handlerFrame

shell ==
    /\ pc = "dispatch" /\ args.action = "shell"
    /\ \E e \in ProjectOutcomes : Finish(e, trace \o <<Call("project.shell", args.name)>>)
    /\ UNCHANGED handlerFrame

status ==
    /\ pc = "dispatch" /\ args.action = "status"
    /\ \E e \in ProjectOutcomes : Finish(e, trace \o <<Call("project.status", args.name)>>)
    /\ UNCHANGED handlerFrame

up ==
    /\ pc = "dispatch" /\ args.action = "up"
    /\ \E e \in ProjectOutcomes : Finish(e, trace \o <<Call("project.up", args.name)>>)
    /\ UNCHANGED handlerFrame

\* --------------------------------------------------------------- destroy
\* Container.exists (project side): a fresh read of the hypervisor state.
Exists(name) == name \in live

\* Project.get_container_by_name raises for a name the project does not
\* declare (see the comment of lines 130..132).
Declared(name) == name \in Range(declared)
UnknownContainer == [type |-> "NomadException", msg |-> "message"]

\* Line 128: args.name or [c.name for c in self.project.containers]
ContainerNames(name) == IF name.val # <<>> THEN name.val ELSE declared

\* Line 129: the comprehension looks the names up in order and stops at the
\* first one get_container_by_name rejects.  `looked` are the names looked up,
\* `ok` tells whether the comprehension completed.
FirstUnknown(names) ==
    IF \E k \in DOMAIN names : ~Declared(names[k])
    THEN CHOOSE k \in DOMAIN names :
            /\ ~Declared(names[k])
            /\ \A j \in 1..(k - 1) : Declared(names[j])
    ELSE 0

\* Mutant: unknown names are passed over instead of aborting the resolution.
ResolveOutcomeLenient(names) == [ok |-> TRUE, looked |-> names]

ResolveOutcome(names) ==
    IF FirstUnknown(names) = 0
    THEN [ok |-> TRUE, looked |-> names]
    ELSE [ok |-> FALSE, looked |-> SubSeq(names, 1, FirstUnknown(names))]

Lookups(looked) == [k \in DOMAIN looked |-> Call("get_container_by_name", StrVal(looked[k]))]

\* Mutant: the confirmation is never skipped.
SkipsConfirmationNever(names, existing) == FALSE

\* Line 136: nothing exists, the confirmation is skipped.
SkipsConfirmation(names, existing) == Len(names) # 0 /\ Len(existing) = 0

\* Mutant: line 144 without the `len(container_names) and` guard.
CallsYesnoUnguarded(names, existing, force) ==
    /\ ~SkipsConfirmation(names, existing)
    /\ ~force

\* Mutant: line 144 asks even when the force flag is set.
CallsYesnoIgnoringForce(names, existing, force) ==
    /\ ~SkipsConfirmation(names, existing)
    /\ Len(names) # 0

\* Line 144: yesno is evaluated only when the names are non-empty and the
\* force flag is not set (short-circuit of `and` / `or`).
CallsYesno(names, existing, force) ==
    /\ ~SkipsConfirmation(names, existing)
    /\ Len(names) # 0
    /\ ~force

\* Mutant: one prompt per existing container instead of one for the set.
PromptsPerTarget(names, existing, force, answer) ==
    IF SkipsConfirmation(names, existing) THEN <<>>
    ELSE <<Call("logging.warning", ListVal(names))>>
         \o (IF CallsYesno(names, existing, force)
             THEN [k \in 1..Len(existing) |-> Event("yesno", NoneVal, answer)]
             ELSE <<>>)

\* Lines 142..144: the calls of the else branch, in order.
Prompts(names, existing, force, answer) ==
    IF SkipsConfirmation(names, existing) THEN <<>>
    ELSE <<Call("logging.warning", ListVal(names))>>
         \o (IF CallsYesno(names, existing, force)
             THEN <<Event("yesno", NoneVal, answer)>> ELSE <<>>)

\* Mutant: the answer of yesno is not taken into account.
ShouldDestroyUngated(names, existing, force, answer) ==
    \/ SkipsConfirmation(names, existing)
    \/ Len(names) # 0

\* Mutant: should_destroy starts as True on line 135.
ShouldDestroyAlways(names, existing, force, answer) == TRUE

\* Lines 135..145: the value of should_destroy.
ShouldDestroy(names, existing, force, answer) ==
    \/ SkipsConfirmation(names, existing)
    \/ Len(names) # 0 /\ (force \/ answer)

destroyFrame == <<declared, args, envSteps>>

destroy_names ==
    /\ pc = "dispatch" /\ args.action = "destroy"
    /\ \E e \in LoadOutcomes :
        IF args.name.val = <<>> /\ e # NoExc
        THEN /\ Finish(e, trace)
             /\ UNCHANGED container_names
        ELSE /\ container_names' = ContainerNames(args.name)
             /\ pc' = "resolve"
             /\ UNCHANGED <<exc, trace, exitStatus>>
    /\ UNCHANGED <<live, idx, existing_containers, should_destroy, destroyed>>
    /\ UNCHANGED destroyFrame

destroy_resolve ==
    /\ pc = "resolve"
    /\ \E e \in LoadOutcomes :
        IF args.name.val # <<>> /\ e # NoExc
        THEN Finish(e, trace)
        ELSE IF ~ResolveOutcome(container_names).ok
        THEN Finish(UnknownContainer, trace \o Lookups(ResolveOutcome(container_names).looked))
        ELSE /\ trace' = trace \o Lookups(ResolveOutcome(container_names).looked)
             /\ pc' = IF Len(container_names) = 0 THEN "decide" ELSE "exists"
             /\ UNCHANGED <<exc, exitStatus>>
    /\ UNCHANGED <<live, container_names, idx, existing_containers, should_destroy, destroyed>>
    /\ UNCHANGED destroyFrame

\* Line 133, one element of the comprehension per step.
destroy_exists ==
    /\ pc = "exists"
    /\ idx <= Len(container_names)
    /\ existing_containers' =
         IF Exists(container_names[idx])
         THEN Append(existing_containers, container_names[idx])
         ELSE existing_containers
    /\ trace' = Append(trace, Event("exists", StrVal(container_names[idx]),
                                    Exists(container_names[idx])))
    /\ idx' = idx + 1
    /\ pc' = IF idx = Len(container_names) THEN "decide" ELSE "exists"
    /\ UNCHANGED <<live, container_names, should_destroy, exc, exitStatus, destroyed>>
    /\ UNCHANGED destroyFrame

destroy_decide ==
    /\ pc = "decide"
    /\ \E answer \in BOOLEAN :
        /\ should_destroy' = ShouldDestroy(container_names, existing_containers,
                                           args.force, answer)
        /\ trace' = trace \o Prompts(container_names, existing_containers,
                                     args.force, answer)
    /\ pc' = "call"
    /\ UNCHANGED <<live, container_names, idx, existing_containers, exc, exitStatus, destroyed>>
    /\ UNCHANGED destroyFrame

\* Project.destroy(container_names): every requested container (all the
\* declared ones for an empty request) that exists is stopped and removed.
DestroyTargets(name) == Range(ContainerNames(name))

destroy_call ==
    /\ pc = "call"
    /\ IF should_destroy
       THEN \E e \in ProjectOutcomes :
            /\ Finish(e, trace \o <<Call("project.destroy", args.name)>>)
            /\ destroyed' = IF e = NoExc THEN DestroyTargets(args.name) \cap live ELSE {}
            /\ live' = IF e = NoExc THEN live \ DestroyTargets(args.name) ELSE live
       ELSE /\ Finish(NoExc, trace)
            /\ UNCHANGED <<live, destroyed>>
    /\ UNCHANGED <<container_names, idx, existing_containers, should_destroy>>
    /\ UNCHANGED destroyFrame

\* ------------------------------------------------------- other processes
envFrame == <<pc, declared, args, container_names, idx, existing_containers,
              should_destroy, exc, exitStatus, trace, destroyed>>

EnvCreate ==
    /\ pc \notin {"start", "exit"}
    /\ envSteps < MaxEnvSteps
    /\ \E n \in Range(declared) \ live : live' = live \cup {n}
    /\ envSteps' = envSteps + 1
    /\ UNCHANGED envFrame

EnvRemove ==
    /\ pc \notin {"start", "exit"}
    /\ envSteps < MaxEnvSteps
    /\ \E n \in live : live' = live \ {n}
    /\ envSteps' = envSteps + 1
    /\ UNCHANGED envFrame

Next ==
    \/ ParseArgs
    \/ config
    \/ halt
    \/ help
    \/ provision
    \/ shell
    \/ status
    \/ up
    \/ destroy_names
    \/ destroy_resolve
    \/ destroy_exists
    \/ destroy_decide
    \/ destroy_call
    \/ EnvCreate
    \/ EnvRemove

Spec == Init /\ [][Next]_vars

TypeOK ==
    /\ pc \in {"start", "dispatch", "resolve", "exists", "decide", "call", "exit"}
    /\ exitStatus \in {0, 1, 2}
    /\ live \subseteq Range(declared)
    /\ envSteps \in 0..MaxEnvSteps

\* ------------------------------------------------------------ properties
Idx(op) == {k \in DOMAIN trace : trace[k].op = op}
IsDestroy == args.action = "destroy"
Affirmed == \E k \in Idx("yesno") : trace[k].ans
Declined == \E k \in Idx("yesno") : ~trace[k].ans
\* The comprehension of line 133 has read the existence of every target.
ChecksDone ==
    /\ pc \in {"decide", "call", "exit"}
    /\ container_names # <<>>
    /\ Cardinality(Idx("exists")) = Len(container_names)
HasUnknownName == \E k \in DOMAIN args.name.val : ~Declared(args.name.val[k])

\* C1: when at least one target existed at the existence check, every call
\* of project.destroy is made with the force flag set or after yesno has
\* returned True, and yesno is never called after project.destroy.
C1_ConfirmBeforeDestroy ==
    (IsDestroy /\ existing_containers # <<>>) =>
        /\ \A j \in Idx("project.destroy") :
              args.force \/ \E k \in Idx("yesno") : k < j /\ trace[k].ans
        /\ \A j \in Idx("project.destroy") : \A k \in Idx("yesno") : k < j

C1_Witness ==
    /\ IsDestroy /\ pc = "exit" /\ ~args.force
    /\ existing_containers # <<>>
    /\ Idx("project.destroy") # {}
    /\ Affirmed

\* C2: destroy without force on a set with at least one existing target
\* calls yesno exactly once for the whole set, however many targets exist.
C2_PromptsExactlyOnce ==
    (IsDestroy /\ ~args.force /\ existing_containers # <<>>) =>
        Cardinality(Idx("yesno")) = (IF pc \in {"call", "exit"} THEN 1 ELSE 0)

C2_Witness ==
    /\ IsDestroy /\ pc = "exit" /\ ~args.force
    /\ Len(container_names) = 2
    /\ Len(existing_containers) = 1
    /\ Cardinality(Idx("yesno")) = 1

\* C3 as stated: declining the prompt ends the invocation with an error
\* outcome, and project.destroy is not called.
C3_DeclineYieldsError ==
    (IsDestroy /\ Declined /\ pc = "exit") =>
        /\ exc # NoExc
        /\ Idx("project.destroy") = {}

\* C3 amended: declining the prompt makes the handler return normally (no
\* exception, nothing logged as an error, exit status 0), and project.destroy
\* is not called and nothing is destroyed.
C3_DeclineReturnsQuietly ==
    (IsDestroy /\ Declined) =>
        /\ Idx("project.destroy") = {}
        /\ destroyed = {}
        /\ pc = "exit" => (exc = NoExc /\ exitStatus = 0 /\ Idx("logger.error") = {})

C3_Witness ==
    /\ IsDestroy /\ pc = "exit" /\ ~args.force
    /\ existing_containers # <<>>
    /\ Declined
    /\ exitStatus = 0

\* C4: on a non-empty target set of which nothing exists, yesno is never
\* called, whatever the force flag, and project.destroy is still called with
\* the requested names.
C4_NoPromptWhenNothingExists ==
    (IsDestroy /\ ChecksDone /\ existing_containers = <<>>) =>
        /\ Idx("yesno") = {}
        /\ pc = "call" => should_destroy
        /\ pc = "exit" => \E j \in Idx("project.destroy") : trace[j].name = args.name

C4_Witness ==
    /\ IsDestroy /\ ChecksDone /\ pc = "exit" /\ ~args.force
    /\ existing_containers = <<>>
    /\ Idx("project.destroy") # {}

\* C5: with no name requested and no container declared, yesno is never
\* called, for either value of the force flag, and project.destroy is not
\* called.
C5_EmptySetDoesNothing ==
    (IsDestroy /\ args.name.val = <<>> /\ declared = <<>>) =>
        /\ Idx("yesno") = {}
        /\ Idx("project.destroy") = {}
        /\ destroyed = {}
        /\ ~should_destroy

C5_Witness ==
    /\ IsDestroy /\ pc = "exit" /\ ~args.force
    /\ args.name.val = <<>> /\ declared = <<>>
    /\ Idx("logging.warning") # {}

\* C6: a requested name the project does not declare makes the invocation
\* fail during resolution: no existence is read, yesno and project.destroy
\* are not called, wherever the unknown name stands and whatever the force
\* flag.
C6_UnknownNameAborts ==
    (IsDestroy /\ HasUnknownName) =>
        /\ pc \in {"dispatch", "resolve", "exit"}
        /\ Idx("exists") = {}
        /\ Idx("yesno") = {}
        /\ Idx("project.destroy") = {}
        /\ destroyed = {}
        /\ pc = "exit" => exc # NoExc

C6_Witness ==
    /\ IsDestroy /\ pc = "exit" /\ args.force
    /\ Len(args.name.val) = 2
    /\ Declared(args.name.val[1]) /\ Exists(args.name.val[1])
    /\ ~Declared(args.name.val[2])
    /\ exc = UnknownContainer

\* C7: yesno is called only by destroy without the force flag.
C7_PromptOnlyForUnforcedDestroy ==
    Idx("yesno") # {} => (IsDestroy /\ ~args.force)

C7_Witness ==
    /\ IsDestroy /\ pc = "exit" /\ args.force
    /\ existing_containers # <<>>
    /\ Idx("project.destroy") # {}
    /\ Idx("yesno") = {}

\* C8: every CLIError, ConfigError or NomadException raised by the handler
\* is logged as an error and ends the process with a non-zero exit status.
C8_NoErrorSwallowed ==
    (pc = "exit" /\ exc.type \in Caught) =>
        /\ exitStatus # 0
        /\ Idx("logger.error") # {}

\* C9 as stated: project.shell is always called with exactly one name.
C9_ShellExactlyOneName ==
    \A j \in Idx("project.shell") :
        trace[j].name.kind = "str" /\ Len(trace[j].name.val) = 1

\* C9 amended: project.shell is called with at most one container name:
\* either None (no name on the command line) or one name, never a list and
\* never more than one.
C9_ShellAtMostOneName ==
    \A j \in Idx("project.shell") :
        \/ trace[j].name = NoneVal
        \/ trace[j].name.kind = "str" /\ Len(trace[j].name.val) = 1

C9_Witness ==
    /\ args.action = "shell" /\ pc = "exit"
    /\ \E j \in Idx("project.shell") : trace[j].name = NoneVal

\* C10: a container is destroyed only if the force flag was set or yesno
\* returned True, even when other processes create containers between the
\* existence check and the call of project.destroy.
C10_GateSoundUnderRace ==
    destroyed # {} => (args.force \/ Affirmed)
====
